---- MODULE Spec2Model ----
(***************************************************************************)
(* A model of scraper.py: the table selector (find_first_trust_table),    *)
(* the cleaner (clean_dataframe), the two-strategy Invesco scraper         *)
(* (scrape_invesco) and the per-fund loop and file writes of main.         *)
(*                                                                         *)
(* Text is a sequence of one-character strings, so that lower(), strip(),  *)
(* replace() and the stop-word search are computed, not assumed.  A cell   *)
(* of a table is a record: text, a number or NaN.  Numbers are integers    *)
(* counting ten-thousandths (1.0 is 10000, 6.5 is 65000), which keeps the  *)
(* division by 100.0 of line 148 exact for values with two decimals.       *)
(***************************************************************************)
EXTENDS Integers, Sequences, FiniteSets, TLC

VARIABLES
    arg_df,       \* clean_dataframe: the table passed in (parameter df)
    result,       \* clean_dataframe: what the call produced
    arg_dfs,      \* find_first_trust_table: the list passed in (parameter dfs)
    ft_result,    \* find_first_trust_table: what the call returned
    inv_pc,       \* scrape_invesco: position in the function
    inv_df,       \* scrape_invesco: local df
    inv_error,    \* scrape_invesco: local error
    inv_ret,      \* scrape_invesco: the returned pair
    pc,           \* main: position ("idle", "loop", "report", "done")
    TODAY,        \* module constant TODAY of the running process
    etfs,         \* main: the fund descriptors read from config.json
    i,            \* main: index of the next descriptor of the loop
    master_list,  \* main: the cleaned tables of this run
    failures,     \* main: the failure entries of this run
    site,         \* the world: what each fund's source answers, and the disk
    latest,       \* files data/latest/<ticker>.csv
    master_latest,\* file data/latest/master_latest.csv
    archive,      \* files data/history/<Y>/<M>/<D>/master_archive.csv
    failures_csv, \* file data/latest/failures.csv
    runs          \* number of runs of main started so far

vars == <<arg_df, result, arg_dfs, ft_result, inv_pc, inv_df, inv_error, inv_ret,
          pc, TODAY, etfs, i, master_list, failures, site, latest,
          master_latest, archive, failures_csv, runs>>

cleanVars == <<arg_df, result>>
ftVars    == <<arg_dfs, ft_result>>
invVars   == <<inv_pc, inv_df, inv_error, inv_ret>>
mainVars  == <<pc, TODAY, etfs, i, master_list, failures, site, latest,
               master_latest, archive, failures_csv, runs>>

----------------------------------------------------------------------------
(* Text: Python's str methods, on sequences of one-character strings.      *)

UpperAlpha == <<"A","B","C","D","E","F","G","H","I","J","K","L","M",
                "N","O","P","Q","R","S","T","U","V","W","X","Y","Z">>
LowerAlpha == <<"a","b","c","d","e","f","g","h","i","j","k","l","m",
                "n","o","p","q","r","s","t","u","v","w","x","y","z">>
Digits     == <<"0","1","2","3","4","5","6","7","8","9">>

IsIn(c, alpha) == \E k \in 1..Len(alpha) : alpha[k] = c
IndexIn(c, alpha) == CHOOSE k \in 1..Len(alpha) : alpha[k] = c

\* the letters' other case, as tables
LowerOf == [c \in {UpperAlpha[k] : k \in 1..26} |-> LowerAlpha[IndexIn(c, UpperAlpha)]]
UpperOf == [c \in {LowerAlpha[k] : k \in 1..26} |-> UpperAlpha[IndexIn(c, LowerAlpha)]]

lower_char(c) == IF c \in DOMAIN LowerOf THEN LowerOf[c] ELSE c
upper_char(c) == IF c \in DOMAIN UpperOf THEN UpperOf[c] ELSE c

str_lower(s) == [k \in 1..Len(s) |-> lower_char(s[k])]
str_upper(s) == [k \in 1..Len(s) |-> upper_char(s[k])]

RECURSIVE str_lstrip(_)
str_lstrip(s) == IF s # <<>> /\ s[1] = " " THEN str_lstrip(Tail(s)) ELSE s

RECURSIVE str_rstrip(_)
str_rstrip(s) ==
    IF s # <<>> /\ s[Len(s)] = " " THEN str_rstrip(SubSeq(s, 1, Len(s) - 1)) ELSE s

str_strip(s) == str_rstrip(str_lstrip(s))

\* sub in s
str_in(sub, s) ==
    \E k \in 1..(Len(s) - Len(sub) + 1) : SubSeq(s, k, k + Len(sub) - 1) = sub

\* s.replace(old, new): every occurrence, left to right, not overlapping
RECURSIVE str_replace(_, _, _)
str_replace(s, old, new) ==
    IF Len(s) < Len(old) THEN s
    ELSE IF SubSeq(s, 1, Len(old)) = old
         THEN new \o str_replace(SubSeq(s, Len(old) + 1, Len(s)), old, new)
         ELSE <<s[1]>> \o str_replace(Tail(s), old, new)

\* Series.str.contains('a|b|...', case=False): some alternative occurs in s
str_contains(s, alternatives) ==
    LET ls == str_lower(s)
    IN  \E w \in alternatives : str_in(str_lower(w), ls)

----------------------------------------------------------------------------
(* Cells and numbers.                                                      *)

S(s)   == [t |-> "str", s |-> s,    n |-> 0]
Num(v) == [t |-> "num", s |-> <<>>, n |-> v]
NaN    == [t |-> "nan", s |-> <<>>, n |-> 0]

Abs(v) == IF v < 0 THEN -v ELSE v

RECURSIVE int_str(_)
int_str(v) ==
    IF v < 10 THEN <<Digits[v + 1]>> ELSE int_str(v \div 10) \o <<Digits[(v % 10) + 1]>>

\* str() of a float with at most two decimals: 6.5 -> "6.5", 6.0 -> "6.0"
float_str(v) ==
    LET a    == Abs(v) \div 100
        ip   == a \div 100
        fp   == a % 100
        frac == IF fp % 10 = 0 THEN <<Digits[(fp \div 10) + 1]>>
                ELSE <<Digits[(fp \div 10) + 1], Digits[(fp % 10) + 1]>>
    IN  (IF v < 0 THEN <<"-">> ELSE <<>>) \o int_str(ip) \o <<".">> \o frac

\* str(x), Series.astype(str)
py_str(c) ==
    CASE c.t = "str" -> c.s
      [] c.t = "nan" -> <<"n","a","n">>
      [] c.t = "num" -> float_str(c.n)

IsDigits(s) == s # <<>> /\ \A k \in 1..Len(s) : IsIn(s[k], Digits)

RECURSIVE digits_val(_)
digits_val(s) ==
    IF s = <<>> THEN 0
    ELSE 10 * digits_val(SubSeq(s, 1, Len(s) - 1)) + (IndexIn(s[Len(s)], Digits) - 1)

\* pd.to_numeric(text, errors='coerce') for decimal text with at most two
\* decimals: [sign] digits [ '.' digit [digit] ]; anything else is NaN
parse_number(s) ==
    LET neg  == s # <<>> /\ s[1] = "-"
        body == IF neg THEN Tail(s) ELSE s
        dots == {k \in 1..Len(body) : body[k] = "."}
    IN  IF dots = {}
        THEN IF IsDigits(body)
             THEN Num((IF neg THEN -1 ELSE 1) * digits_val(body) * 10000)
             ELSE NaN
        ELSE LET d  == CHOOSE k \in dots : TRUE
                 ip == SubSeq(body, 1, d - 1)
                 fp == SubSeq(body, d + 1, Len(body))
             IN  IF Cardinality(dots) = 1 /\ IsDigits(ip) /\ IsDigits(fp) /\ Len(fp) <= 2
                 THEN Num((IF neg THEN -1 ELSE 1) *
                          (digits_val(ip) * 10000
                           + digits_val(fp) * (IF Len(fp) = 1 THEN 1000 ELSE 100)))
                 ELSE NaN

----------------------------------------------------------------------------
(* Tables (pandas DataFrames): column labels and rows of cells.  None is a *)
(* table record too, so that results compare.  id stands for the object's  *)
(* identity (which fetch produced it); no code reads it.                   *)

DF(id, columns, rows) == [none |-> FALSE, id |-> id, columns |-> columns, rows |-> rows]
None == [none |-> TRUE, id |-> "None", columns |-> <<>>, rows |-> <<>>]

\* DataFrame.empty: some axis has length 0
df_empty(d) == Len(d.columns) = 0 \/ Len(d.rows) = 0
\* len(df)
df_len(d) == Len(d.rows)

----------------------------------------------------------------------------
(* find_first_trust_table                                                  *)

valid_keywords ==
    { <<"t","i","c","k","e","r">>, <<"s","y","m","b","o","l">>,
      <<"h","o","l","d","i","n","g">>, <<"i","d","e","n","t","i","f","i","e","r">>,
      <<"w","e","i","g","h","t","i","n","g">>, <<"c","u","s","i","p">> }

\* lines 90 and 95: [str(x).strip().lower() for x in ...]
stripped_lower(cells) == [k \in 1..Len(cells) |-> str_lower(str_strip(py_str(cells[k])))]

\* lines 91 and 96: any(k in texts for k in valid_keywords), texts a list:
\* some keyword is an element of the list
any_keyword_in(texts) == \E kw \in valid_keywords : \E k \in 1..Len(texts) : texts[k] = kw

\* lines 98-100, with the rows df[0:] kept (the promoted row not dropped)
promote_header_keep_row(d) == DF(d.id, d.rows[1], d.rows)

\* lines 98-100: the first row becomes the labels of a copy of the rest
promote_header(d) == DF(d.id, d.rows[1], Tail(d.rows))

\* the loop of lines 89-102 from candidate k on
RECURSIVE first_trust_scan(_, _)
first_trust_scan(ds, k) ==
    IF k > Len(ds) THEN None
    ELSE IF any_keyword_in(stripped_lower(ds[k].columns)) THEN ds[k]
    ELSE IF ~df_empty(ds[k]) /\ any_keyword_in(stripped_lower(ds[k].rows[1]))
         THEN promote_header(ds[k])
    ELSE first_trust_scan(ds, k + 1)

\* the call: what it returns, and the caller's list after it (the header
\* is set on df[1:].copy(), so no table of the list changes)
find_first_trust_table(ds) ==
    [called |-> TRUE,
     df |-> IF ds = <<>> THEN None ELSE first_trust_scan(ds, 1),
     dfs_after |-> ds]

FTNotCalled == [called |-> FALSE, df |-> None, dfs_after |-> <<>>]

----------------------------------------------------------------------------
(* clean_dataframe                                                         *)

c_ticker == <<"t","i","c","k","e","r">>
c_name   == <<"n","a","m","e">>
c_weight == <<"w","e","i","g","h","t">>

\* the keys of col_map, by the value they map to
col_map_ticker ==
    { <<"s","t","o","c","k","t","i","c","k","e","r">>, <<"s","y","m","b","o","l">>,
      <<"h","o","l","d","i","n","g">>, c_ticker,
      <<"i","d","e","n","t","i","f","i","e","r">>, <<"s","e","d","o","l">> }
col_map_name ==
    { <<"s","e","c","u","r","i","t","y","n","a","m","e">>, <<"c","o","m","p","a","n","y">>,
      <<"s","e","c","u","r","i","t","y"," ","n","a","m","e">>,
      <<"s","e","c","u","r","i","t","y","_","n","a","m","e">>,
      <<"s","e","c","u","r","i","t","y">>, c_name }
col_map_weight ==
    { <<"w","e","i","g","h","t","i","n","g","s">>, <<"%"," ","t","n","a">>, c_weight,
      <<"%"," ","o","f"," ","n","e","t"," ","a","s","s","e","t","s">>,
      <<"w","e","i","g","h","t","i","n","g">>,
      <<"%","_","o","f","_","n","e","t","_","a","s","s","e","t","s">>,
      <<"%"," ","n","e","t"," ","a","s","s","e","t","s">> }

\* line 110: the labels as lower-cased, trimmed text
normalize_columns(columns) ==
    [k \in 1..Len(columns) |-> str_lower(str_strip(py_str(columns[k])))]

\* rename_label as a substring match in priority order (what a mapper that
\* searched each label for the keywords would do)
rename_label_substring(c) ==
    IF \E key \in col_map_ticker : str_in(key, c) THEN c_ticker
    ELSE IF \E key \in col_map_name : str_in(key, c) THEN c_name
    ELSE IF \E key \in col_map_weight : str_in(key, c) THEN c_weight
    ELSE c

\* line 121, DataFrame.rename(columns=col_map): a label that is a key of
\* col_map gets the key's value, any other label stays
rename_label(c) ==
    IF c \in col_map_ticker THEN c_ticker
    ELSE IF c \in col_map_name THEN c_name
    ELSE IF c \in col_map_weight THEN c_weight
    ELSE c

rename_columns(cols) == [k \in 1..Len(cols) |-> rename_label(cols[k])]

\* line 122: of the columns with one label the first is kept, so a label
\* names the first column that carries it (0: no such column)
column_index(cols, label) ==
    IF \E k \in 1..Len(cols) : cols[k] = label
    THEN CHOOSE k \in 1..Len(cols) :
            cols[k] = label /\ \A j \in 1..(k - 1) : cols[j] # label
    ELSE 0

stop_words ==
    { <<"c","a","s","h">>, <<"u","s","d">>, <<"l","i","q","u","i","d","i","t","y">>,
      <<"g","o","v","e","r","n","m","e","n","t">>, <<"t","r","e","a","s","u","r","y">>,
      <<"m","o","n","e","y"," ","m","a","r","k","e","t">>,
      <<"n","e","t"," ","o","t","h","e","r">>, <<"t","o","t","a","l">> }

\* lines 134-136: the mask of one row, from its name and ticker as text
row_mask(name, ticker) == str_contains(name, stop_words) \/ str_contains(ticker, stop_words)

\* lines 139-141
normalize_ticker(ticker) ==
    str_strip(str_upper(
        str_replace(str_replace(ticker, <<" ","U","S","D">>, <<>>), <<".","U","N">>, <<>>)))

\* line 144: the column holds Python objects (text) rather than floats
dtype_object(cells) == \E k \in 1..Len(cells) : cells[k].t = "str"

\* line 145
weight_text(c) == str_replace(str_replace(py_str(c), <<"%">>, <<>>), <<",">>, <<>>)

\* line 146, pd.to_numeric(..., errors='coerce') of one value
to_numeric(c) == IF c.t = "str" THEN parse_number(c.s) ELSE c

\* line 147: Series.max() skips NaN; NaN > 1.0 is False
max_exceeds_one(cells) == \E k \in 1..Len(cells) : cells[k].t = "num" /\ cells[k].n > 10000

\* line 148: x / 100.0 (NaN stays NaN)
divide_by_100(c) == IF c.t = "num" THEN Num(c.n \div 100) ELSE c

\* lines 143-150: the weight column of the kept rows; all_cells is the
\* column before the mask (filtering rows keeps the dtype)
clean_weights(has_weight, all_cells, kept_cells) ==
    IF has_weight
    THEN LET texts   == IF dtype_object(all_cells)
                        THEN [k \in 1..Len(kept_cells) |-> S(weight_text(kept_cells[k]))]
                        ELSE kept_cells
             numbers == [k \in 1..Len(texts) |-> to_numeric(texts[k])]
         IN  IF max_exceeds_one(numbers)
             THEN [k \in 1..Len(numbers) |-> divide_by_100(numbers[k])]
             ELSE numbers
    ELSE [k \in 1..Len(kept_cells) |-> Num(0)]

Returned(rows) == [kind |-> "df", rows |-> rows]
ReturnedNone   == [kind |-> "None", rows |-> <<>>]
Raised(what)   == [kind |-> what, rows |-> <<>>]
NotCalled      == [kind |-> "not called", rows |-> <<>>]

clean_dataframe(d, ticker) ==
    IF d.none \/ df_empty(d) THEN ReturnedNone
    ELSE
    LET cols == rename_columns(normalize_columns(d.columns))
        ti   == column_index(cols, c_ticker)
        ni   == column_index(cols, c_name)
        wi   == column_index(cols, c_weight)
    IN  IF ti = 0 THEN ReturnedNone
        ELSE IF ni = 0 THEN Raised("KeyError")       \* line 131, df['name']
        ELSE
        LET Keep(r) == ~row_mask(py_str(r[ni]), py_str(r[ti]))
            kept    == SelectSeq(d.rows, Keep)
            wcell(r) == IF wi = 0 THEN NaN ELSE r[wi]
            weights == clean_weights(wi # 0,
                                     [k \in 1..Len(d.rows) |-> wcell(d.rows[k])],
                                     [k \in 1..Len(kept) |-> wcell(kept[k])])
        IN  Returned([k \in 1..Len(kept) |->
                        [ETF_Ticker   |-> ticker,
                         ticker       |-> normalize_ticker(py_str(kept[k][ti])),
                         name         |-> py_str(kept[k][ni]),
                         weight       |-> weights[k],
                         Date_Scraped |-> TODAY]])

----------------------------------------------------------------------------
(* Inputs of clean_dataframe: a header shape (labels, and which field of   *)
(* a holding each column carries) over rows drawn from a pool.             *)

MaxRows == 2

Col(label, field) == [label |-> S(label), field |-> field]

HdrStockTickerSpaced ==
    << Col(<<"S","t","o","c","k"," ","T","i","c","k","e","r">>, "t"),
       Col(<<"S","e","c","u","r","i","t","y"," ","N","a","m","e">>, "n"),
       Col(<<"%"," ","o","f"," ","N","e","t"," ","A","s","s","e","t","s">>, "w") >>
HdrStockTicker ==
    << Col(<<"S","t","o","c","k","T","i","c","k","e","r">>, "t"),
       Col(<<"S","e","c","u","r","i","t","y"," ","N","a","m","e">>, "n"),
       Col(<<"%"," ","o","f"," ","N","e","t"," ","A","s","s","e","t","s">>, "w") >>
HdrPlain ==
    << Col(<<" ","T","i","c","k","e","r"," ">>, "t"), Col(<<"N","a","m","e">>, "n"),
       Col(<<"W","e","i","g","h","t">>, "w") >>
HdrNoWeight ==
    << Col(<<"S","y","m","b","o","l">>, "t"), Col(<<"C","o","m","p","a","n","y">>, "n") >>
HdrNoName ==
    << Col(<<"T","i","c","k","e","r">>, "t"), Col(<<"W","e","i","g","h","t","i","n","g">>, "w") >>
HdrNoTicker ==
    << Col(<<"N","a","m","e">>, "n"), Col(<<"W","e","i","g","h","t">>, "w") >>
HdrTwoTickers ==
    << Col(<<"I","d","e","n","t","i","f","i","e","r">>, "x"),
       Col(<<"T","i","c","k","e","r">>, "t"), Col(<<"N","a","m","e">>, "n"),
       Col(<<"W","e","i","g","h","t">>, "w") >>

HeaderPool == { HdrStockTickerSpaced, HdrStockTicker, HdrPlain, HdrNoWeight,
                HdrNoName, HdrNoTicker, HdrTwoTickers }

Holding(t, n, w) == [t |-> t, n |-> n, w |-> w, x |-> S(<<"I","D","7">>)]

RowCash  == Holding(S(<<"C","A","S","H">>),
                    S(<<"C","a","s","h"," ","&"," ","O","t","h","e","r">>), Num(12000))
RowAAPL  == Holding(S(<<"A","A","P","L">>), S(<<"A","p","p","l","e"," ","I","n","c">>),
                    Num(65000))
RowSplit == Holding(S(<<"C","A",".","U","N","S","H">>), S(<<"A","c","m","e">>),
                    S(<<"0",".","5","%">>))
RowNoTicker == Holding(NaN, S(<<"A","p","p","l","e"," ","I","n","c">>), Num(3000))
RowBlank == Holding(S(<<" ">>), S(<<"B","l","a","n","k"," ","C","o">>), Num(100))
RowMSFT  == Holding(S(<<"M","S","F","T">>), S(<<"M","i","c","r","o","s","o","f","t">>),
                    S(<<"n","/","a">>))
RowSHOP  == Holding(S(<<" ","s","h","o","p",".","U","N"," ">>),
                    S(<<"S","h","o","p","i","f","y">>), S(<<"1",",","2","5","0",".","5","%">>))
RowNVDA  == Holding(S(<<"N","V","D","A">>), S(<<"N","v","i","d","i","a">>), Num(3000))
RowTLT   == Holding(S(<<"T","L","T">>),
                    S(<<"U","S"," ","T","r","e","a","s","u","r","y"," ","B","o","n","d">>),
                    S(<<"2",".","0","%">>))
RowGME   == Holding(S(<<"G","M","E">>), S(<<"G","a","m","e","S","t","o","p">>), Num(-5000))

RowPool == { RowCash, RowAAPL, RowSplit, RowNoTicker, RowBlank, RowMSFT, RowSHOP,
             RowNVDA, RowTLT, RowGME }

\* the table with header hdr over the holdings hs
Table(id, hdr, hs) ==
    DF(id, [c \in 1..Len(hdr) |-> hdr[c].label],
           [r \in 1..Len(hs) |-> [c \in 1..Len(hdr) |-> hs[r][hdr[c].field]]])

SeqsUpTo(pool, n) == UNION { [1..m -> pool] : m \in 0..n }

CleanInputs ==
    {None} \cup { Table("in", hdr, hs) : hdr \in HeaderPool, hs \in SeqsUpTo(RowPool, MaxRows) }

CleanIdle == arg_df = None /\ result = NotCalled
FTIdle    == arg_dfs = <<>> /\ ft_result = FTNotCalled
InvIdle   == inv_pc = "off" /\ inv_df = None /\ inv_error = "None"
                 /\ inv_ret = [df |-> None, error |-> "None"]
MainIdle  == /\ pc = "off" /\ TODAY = 1 /\ etfs = <<>> /\ i = 0
             /\ master_list = <<>> /\ failures = <<>> /\ site = <<>>
             /\ latest = <<>> /\ master_latest = ReturnedNone /\ archive = <<>>
             /\ failures_csv = <<>> /\ runs = 0

CleanInit == /\ arg_df \in CleanInputs /\ result = NotCalled
             /\ FTIdle /\ InvIdle /\ MainIdle

\* one call clean_dataframe(df, "QQQ")
CallClean ==
    /\ result = NotCalled
    /\ result' = clean_dataframe(arg_df, "QQQ")
    /\ UNCHANGED <<arg_df, ftVars, invVars, mainVars>>

CleanNext == CallClean

SpecClean == CleanInit /\ [][CleanNext]_vars

----------------------------------------------------------------------------
(* Properties of clean_dataframe (checked under SpecClean).                *)

Called == result # NotCalled
NonEmptyInput == ~arg_df.none /\ ~df_empty(arg_df)

LabelText(d, c) == str_lower(str_strip(py_str(d.columns[c])))
\* some label of d is one of keys / contains one of keys
LabelIs(d, keys) == \E c \in 1..Len(d.columns) : LabelText(d, c) \in keys
LabelContains(d, keys) ==
    \E c \in 1..Len(d.columns) : \E key \in keys : str_in(key, LabelText(d, c))

ScenarioRows   == <<RowCash, RowAAPL>>
ScenarioSpaced == Table("in", HdrStockTickerSpaced, ScenarioRows)
ScenarioExact  == Table("in", HdrStockTicker, ScenarioRows)
RowOutAAPL ==
    [ETF_Ticker |-> "QQQ", ticker |-> <<"A","A","P","L">>,
     name |-> <<"A","p","p","l","e"," ","I","n","c">>, weight |-> Num(650),
     Date_Scraped |-> TODAY]

C2_NoStopWordEmitted ==
    result.kind = "df" =>
        \A r \in 1..Len(result.rows) :
            /\ ~str_contains(result.rows[r].ticker, stop_words)
            /\ ~str_contains(result.rows[r].name, stop_words)

\* a ticker cell that is missing or blank
NoTicker(c) == c.t = "nan" \/ str_strip(py_str(c)) = <<>>

\* C3: every emitted row has a non-empty ticker, and a row whose ticker is
\* missing or blank is not emitted (under any placeholder): the output has
\* no more rows than the input has rows with a ticker.
C3_TickerNonEmpty ==
    result.kind = "df" =>
        /\ \A r \in 1..Len(result.rows) : result.rows[r].ticker # <<>>
        /\ LET ti == column_index(rename_columns(normalize_columns(arg_df.columns)),
                                  c_ticker)
               HasTicker(row) == ~NoTicker(row[ti])
           IN  Len(result.rows) <= Len(SelectSeq(arg_df.rows, HasTicker))

\* C4: every emitted weight is a number in [0,1] (a value that does not
\* parse is emitted as 0.0).
C4_WeightInUnitInterval ==
    result.kind = "df" =>
        \A r \in 1..Len(result.rows) :
            /\ result.rows[r].weight.t = "num"
            /\ result.rows[r].weight.n >= 0
            /\ result.rows[r].weight.n <= 10000

\* C5: of a non-empty table only a missing ticker column makes the call
\* fail, and that by answering None: with a ticker column a table comes
\* back, with weights 0.0 when there is no weight column and a default name
\* when there is no name column.
C5_OnlyTickerRequired ==
    (Called /\ NonEmptyInput) =>
        /\ LabelIs(arg_df, col_map_ticker) => result.kind = "df"
        /\ ~LabelIs(arg_df, col_map_ticker) => result.kind = "None"
        /\ (result.kind = "df" /\ ~LabelIs(arg_df, col_map_weight)) =>
              \A r \in 1..Len(result.rows) : result.rows[r].weight = Num(0)

----------------------------------------------------------------------------
(* Inputs of find_first_trust_table: lists of the tables pd.read_html may  *)
(* find in a page.                                                         *)

MaxTables == 3

Txt(texts) == [k \in 1..Len(texts) |-> S(texts[k])]

TxtAAPL == Txt(<< <<"A","A","P","L">>, <<"A","p","p","l","e"," ","I","n","c">>,
                  <<"6",".","5","%">> >>)
TxtMSFT == Txt(<< <<"M","S","F","T">>, <<"M","i","c","r","o","s","o","f","t">>,
                  <<"3",".","1","%">> >>)

\* a performance table: no keyword anywhere
TblPerf == DF("perf", Txt(<< <<"Y","T","D">>, <<"1","Y">> >>),
              << Txt(<< <<"1",".","0">>, <<"2",".","0">> >>) >>)
\* a keyword in the header (after strip and lower)
TblHeader == DF("hdr", Txt(<< <<" ","T","i","c","k","e","r">>, <<"N","a","m","e">>,
                              <<"W","e","i","g","h","t","i","n","g">> >>),
                << TxtAAPL, TxtMSFT >>)
\* the real header is the first data row
TblPromote == DF("promo", Txt(<< <<"0">>, <<"1">>, <<"2">> >>),
                 << Txt(<< <<"I","d","e","n","t","i","f","i","e","r">>, <<"N","a","m","e">>,
                           <<"W","e","i","g","h","t","i","n","g">> >>),
                    TxtAAPL, TxtMSFT >>)
\* a label that only contains a keyword
TblSubstr == DF("sub", Txt(<< <<"T","i","c","k","e","r"," ","S","y","m","b","o","l">>,
                              <<"N","a","m","e">> >>),
                << Txt(<< <<"A","A","P","L">>, <<"A","p","p","l","e"," ","I","n","c">> >>) >>)
TblEmpty == DF("empty", Txt(<< <<"x">>, <<"y">> >>), <<>>)
\* only the header row, as data
TblPromoteOnly == DF("promo1", Txt(<< <<"x">>, <<"y">> >>),
                     << <<NaN, S(<<" ","C","U","S","I","P"," ">>)>> >>)
TblHeaderEmpty == DF("hdr0", Txt(<< <<"H","o","l","d","i","n","g">> >>), <<>>)

FTPool == { TblPerf, TblHeader, TblPromote, TblSubstr, TblEmpty, TblPromoteOnly,
            TblHeaderEmpty }

FTInit == /\ arg_dfs \in SeqsUpTo(FTPool, MaxTables) /\ ft_result = FTNotCalled
          /\ CleanIdle /\ InvIdle /\ MainIdle

\* one call find_first_trust_table(dfs)
CallFirstTrust ==
    /\ ~ft_result.called
    /\ \E r \in { find_first_trust_table(arg_dfs) } :
          ft_result' = r /\ arg_dfs' = r.dfs_after
    /\ UNCHANGED <<cleanVars, invVars, mainVars>>

FTNext == CallFirstTrust

SpecFT == FTInit /\ [][FTNext]_vars

(* Properties of find_first_trust_table (checked under SpecFT).            *)

HeaderMatch(d) ==
    \E c \in 1..Len(d.columns) : str_lower(str_strip(py_str(d.columns[c]))) \in valid_keywords
FirstRowMatch(d) ==
    /\ Len(d.columns) > 0 /\ Len(d.rows) > 0
    /\ \E c \in 1..Len(d.rows[1]) : str_lower(str_strip(py_str(d.rows[1][c]))) \in valid_keywords
Matches(d) == HeaderMatch(d) \/ FirstRowMatch(d)

\* C9: the call returns None when no candidate has a keyword as a header
\* label or as a cell of its first row (an empty list included); otherwise
\* it answers for the first such candidate in list order: the candidate
\* itself on a header match, and else a table whose labels are the first
\* row's values, with as many columns, one row fewer and the other rows in
\* order.  The caller's list is as it was.
C9_FirstTrustTable ==
    [][ (~ft_result.called /\ ft_result'.called) =>
          /\ arg_dfs' = arg_dfs
          /\ IF \A k \in 1..Len(arg_dfs) : ~Matches(arg_dfs[k])
             THEN ft_result'.df = None
             ELSE LET j == CHOOSE k \in 1..Len(arg_dfs) :
                              Matches(arg_dfs[k]) /\ \A m \in 1..(k - 1) : ~Matches(arg_dfs[m])
                      d == arg_dfs[j]
                      r == ft_result'.df
                  IN  IF HeaderMatch(d) THEN r = d
                      ELSE /\ ~r.none
                           /\ r.columns = d.rows[1]
                           /\ Len(r.columns) = Len(d.columns)
                           /\ Len(r.rows) = Len(d.rows) - 1
                           /\ \A m \in 1..Len(r.rows) : r.rows[m] = d.rows[m + 1]
      ]_vars

\* a promotion in the second candidate, after a first that matches nothing
C9_Witness ==
    /\ ft_result.called /\ Len(arg_dfs) >= 2
    /\ ~Matches(arg_dfs[1]) /\ ~HeaderMatch(arg_dfs[2]) /\ FirstRowMatch(arg_dfs[2])
    /\ ft_result.df.columns = arg_dfs[2].rows[1]
    /\ Len(ft_result.df.rows) = 2

----------------------------------------------------------------------------
(* scrape_invesco and its two strategies.  What the browser meets is the   *)
(* world's: a record of the fund's page and of the export download.        *)

MIN_INVESCO_ROWS == 30
MIN_OTHER_ROWS == 5

WAF_HTML          == "WAF_HTML_BLOCK"
EXPORT_NOT_FOUND  == "EXPORT_BUTTON_NOT_FOUND"
DOWNLOAD_TIMEOUT  == "DOWNLOAD_TIMEOUT"
PARSE_ERROR       == "PARSE_ERROR"
INSUFFICIENT_ROWS == "INSUFFICIENT_ROWS"
NETWORK_ERROR     == "NETWORK_ERROR"
UNKNOWN           == "UNKNOWN_ERROR"
NoError           == "None"

Pair(d, e) == [df |-> d, error |-> e]

\* labels as str(c).lower() (lines 272, and 241 for the whole index)
lower_labels(d) == [k \in 1..Len(d.columns) |-> str_lower(py_str(d.columns[k]))]

\* scrape_invesco_export_button: export is how far the download got
\* ("crash", "no_button", "timeout", "unparsable", "file") and the file read
scrape_invesco_export_button(export) ==
    CASE export.step = "crash"      -> Pair(None, UNKNOWN)            \* line 254
      [] export.step = "no_button"  -> Pair(None, EXPORT_NOT_FOUND)   \* line 197
      [] export.step = "timeout"    -> Pair(None, DOWNLOAD_TIMEOUT)   \* line 218
      [] export.step = "unparsable" -> Pair(None, PARSE_ERROR)        \* line 248
      [] export.step = "file" ->
            IF df_empty(export.file)
               \/ \E k \in 1..Len(export.file.columns) :
                     str_in(<<"@","d","o","c","t","y","p","e">>, lower_labels(export.file)[k])
            THEN Pair(None, WAF_HTML)                                  \* line 242
            ELSE Pair(export.file, NoError)                            \* line 244

\* lines 271-278 from table k of the page on
RECURSIVE visible_table_scan(_, _)
visible_table_scan(tables, k) ==
    IF k > Len(tables) THEN Pair(None, PARSE_ERROR)                    \* line 281
    ELSE LET cols == lower_labels(tables[k])
         IN  IF \E c \in 1..Len(cols) : cols[c] \in { <<"y","t","d">>, <<"1","y">> }
             THEN visible_table_scan(tables, k + 1)
             ELSE IF df_len(tables[k]) > 5 THEN Pair(tables[k], NoError)
             ELSE visible_table_scan(tables, k + 1)

\* scrape_invesco_fallback: page is "error" (the driver or read_html raised)
\* or "ok" with the tables read_html found
scrape_invesco_fallback(page, tables) ==
    IF page # "ok" THEN Pair(None, UNKNOWN)                            \* line 286
    ELSE visible_table_scan(tables, 1)

\* line 296 without the row count
primary_accepted_any(d) == ~d.none

\* line 296
primary_accepted(d) == ~d.none /\ df_len(d) >= MIN_INVESCO_ROWS

\* lines 304-310
fallback_return(d, e) ==
    IF ~d.none
    THEN IF df_len(d) < MIN_INVESCO_ROWS THEN Pair(d, INSUFFICIENT_ROWS)
         ELSE Pair(d, NoError)
    ELSE Pair(None, IF e # NoError THEN e ELSE UNKNOWN)

\* scrape_invesco as one call, as main uses it
scrape_invesco(w) ==
    LET p == scrape_invesco_export_button(w.export)
    IN  IF primary_accepted(p.df) THEN Pair(p.df, NoError)
        ELSE LET f == scrape_invesco_fallback(w.page, w.tables)
             IN  fallback_return(f.df, f.error)

----------------------------------------------------------------------------
(* Worlds: what a fund's source answers during one run.                    *)
(*   page    "ok", "error" (the request, the driver or the parse raised)   *)
(*           or "404" (an answer whose status is not 200)                  *)
(*   tables  the tables of the page (or the one table of a CSV)            *)
(*   export  how far the export download gets, and the file                *)
(*   disk_ok whether DataFrame.to_csv of the fund's file succeeds          *)

World(page, tables, export, disk_ok) ==
    [page |-> page, tables |-> tables, export |-> export, disk_ok |-> disk_ok]

Export(step, file) == [step |-> step, file |-> file]
NoExport == Export("crash", None)

\* holding number k of a generated table
HoldingK(k) == Holding(S(<<"H">> \o int_str(k)), S(<<"C","o"," ">> \o int_str(k)),
                       Num(1000 * k))
Holdings(n) == [k \in 1..n |-> HoldingK(k)]

HdrExport ==
    << Col(<<"H","o","l","d","i","n","g">>, "t"), Col(<<"N","a","m","e">>, "n"),
       Col(<<"W","e","i","g","h","t">>, "w") >>
HdrDoctype ==
    << Col(<<"<","!","@","D","O","C","T","Y","P","E",">">>, "x") >>
HdrPerf ==
    << Col(<<"Y","T","D">>, "w"), Col(<<"1","Y">>, "w") >>

ExportFile(n)   == Table("export", HdrExport, Holdings(n))
VisibleTable(n) == Table("visible", HdrPlain, Holdings(n))
PerfTable(n)    == Table("perf", HdrPerf, Holdings(n))

InvescoExports ==
    { Export("crash", None), Export("no_button", None), Export("timeout", None),
      Export("unparsable", None), Export("file", ExportFile(0)),
      Export("file", Table("export", HdrDoctype, Holdings(2))),
      Export("file", ExportFile(3)),
      Export("file", ExportFile(MIN_INVESCO_ROWS - 1)),
      Export("file", ExportFile(MIN_INVESCO_ROWS)),
      Export("file", ExportFile(MIN_INVESCO_ROWS + 1)) }

InvescoPages ==
    { <<"error", <<>> >>,
      <<"ok", << PerfTable(8), VisibleTable(4) >> >>,
      <<"ok", << PerfTable(8), VisibleTable(10) >> >>,
      <<"ok", << VisibleTable(MIN_INVESCO_ROWS - 1) >> >>,
      <<"ok", << VisibleTable(MIN_INVESCO_ROWS) >> >>,
      <<"ok", << VisibleTable(3), VisibleTable(MIN_INVESCO_ROWS + 1) >> >> }

InvescoWorlds ==
    { World(pg[1], pg[2], ex, TRUE) : pg \in InvescoPages, ex \in InvescoExports }

----------------------------------------------------------------------------
(* scrape_invesco("QQQ", download_dir), statement by statement.            *)

InvInit == /\ site \in [{"QQQ"} -> InvescoWorlds]
           /\ inv_pc = "line295" /\ inv_df = None /\ inv_error = NoError
           /\ inv_ret = Pair(None, NoError)
           /\ CleanIdle /\ FTIdle
           /\ pc = "off" /\ TODAY = 1 /\ etfs = <<>> /\ i = 0
           /\ master_list = <<>> /\ failures = <<>>
           /\ latest = <<>> /\ master_latest = ReturnedNone /\ archive = <<>>
           /\ failures_csv = <<>> /\ runs = 0

invOther == <<cleanVars, ftVars, pc, TODAY, etfs, i, master_list, failures, site,
              latest, master_latest, archive, failures_csv, runs>>

\* line 295
InvExport ==
    /\ inv_pc = "line295"
    /\ \E p \in { scrape_invesco_export_button(site["QQQ"].export) } :
          inv_df' = p.df /\ inv_error' = p.error
    /\ inv_pc' = "line296"
    /\ UNCHANGED <<inv_ret, invOther>>

\* lines 296-297
InvReturnPrimary ==
    /\ inv_pc = "line296" /\ primary_accepted(inv_df)
    /\ inv_ret' = Pair(inv_df, NoError)
    /\ inv_pc' = "returned297"
    /\ UNCHANGED <<inv_df, inv_error, invOther>>

\* lines 299-303
InvFallback ==
    /\ inv_pc = "line296" /\ ~primary_accepted(inv_df)
    /\ \E f \in { scrape_invesco_fallback(site["QQQ"].page, site["QQQ"].tables) } :
          inv_df' = f.df /\ inv_error' = f.error
    /\ inv_pc' = "line304"
    /\ UNCHANGED <<inv_ret, invOther>>

\* lines 304-310
InvReturnFallback ==
    /\ inv_pc = "line304"
    /\ inv_ret' = fallback_return(inv_df, inv_error)
    /\ inv_pc' = "returned304"
    /\ UNCHANGED <<inv_df, inv_error, invOther>>

InvNext == InvExport \/ InvReturnPrimary \/ InvFallback \/ InvReturnFallback

SpecInv == InvInit /\ [][InvNext]_vars

(* Properties of scrape_invesco (checked under SpecInv).                   *)

InvReturned == inv_pc \in {"returned297", "returned304"}

\* C10: a returned table comes with error None only if it has at least
\* MIN_INVESCO_ROWS rows, and with fewer rows only with INSUFFICIENT_ROWS;
\* (None, None) is never returned; a table of the export with fewer rows is
\* never the one returned; and the fallback is run exactly when the export
\* gave no table or one with fewer than MIN_INVESCO_ROWS rows.
C10_InvescoConsistent ==
    /\ [](InvReturned =>
            /\ (~inv_ret.df.none /\ inv_ret.error = NoError)
                  => df_len(inv_ret.df) >= MIN_INVESCO_ROWS
            /\ (~inv_ret.df.none /\ df_len(inv_ret.df) < MIN_INVESCO_ROWS)
                  => inv_ret.error = INSUFFICIENT_ROWS
            /\ ~(inv_ret.df.none /\ inv_ret.error = NoError)
            /\ inv_ret.df.id = "export" => df_len(inv_ret.df) >= MIN_INVESCO_ROWS)
    /\ [][ (inv_pc = "line296" /\ inv_pc' # "line296") =>
              (inv_pc' = "line304" <=>
                  (inv_df.none \/ df_len(inv_df) < MIN_INVESCO_ROWS)) ]_vars

\* the export gave a short table, the fallback was run and its short table
\* is returned as INSUFFICIENT_ROWS
C10_Witness ==
    /\ inv_pc = "returned304"
    /\ site["QQQ"].export.step = "file"
    /\ df_len(site["QQQ"].export.file) = MIN_INVESCO_ROWS - 1
    /\ inv_ret.df.id = "visible" /\ inv_ret.error = INSUFFICIENT_ROWS

----------------------------------------------------------------------------
(* main: one fund of the loop.                                             *)

st_pacer_csv   == <<"p","a","c","e","r","_","c","s","v">>
st_first_trust == <<"f","i","r","s","t","_","t","r","u","s","t">>
st_alpha       == <<"s","e","l","e","n","i","u","m","_","a","l","p","h","a">>
st_invesco     == <<"s","e","l","e","n","i","u","m","_","i","n","v","e","s","c","o">>
st_other       == <<"o","t","h","e","r">>
st_missing     == <<"<no key>">>      \* the descriptor has no 'scraper_type' key

Etf(ticker, enabled, scraper_type, url) ==
    [ticker |-> ticker, enabled |-> enabled, scraper_type |-> scraper_type, url |-> url]

\* lines 396-399 from table k on: the first table with more than 25 rows
RECURSIVE alpha_table_scan(_, _)
alpha_table_scan(tables, k) ==
    IF k > Len(tables) THEN None
    ELSE IF df_len(tables[k]) > 25 THEN tables[k]
    ELSE alpha_table_scan(tables, k + 1)

\* lines 348-406: the branch of the fund's scraper type, as (df, error).
\* pd.read_html raises on a page without tables, pd.read_csv on no text.
fetch(etf, w) ==
    IF etf.scraper_type = st_pacer_csv
    THEN IF w.page = "error" \/ (w.page = "ok" /\ w.tables = <<>>)
         THEN Pair(None, NETWORK_ERROR)                                \* line 361
         ELSE IF w.page = "ok" THEN Pair(w.tables[1], NoError)         \* line 359
         ELSE Pair(None, NoError)                                      \* status # 200
    ELSE IF etf.scraper_type = st_first_trust
    THEN IF w.page = "error" \/ w.tables = <<>>
         THEN Pair(None, NETWORK_ERROR)                                \* line 371
         ELSE Pair(find_first_trust_table(w.tables).df, NoError)       \* line 369
    ELSE IF str_in(<<"a","l","p","h","a">>, etf.url) \/ etf.scraper_type = st_alpha
    THEN IF w.page = "error" \/ w.tables = <<>>
         THEN Pair(None, UNKNOWN)                                      \* line 401
         ELSE Pair(alpha_table_scan(w.tables, 1), NoError)
    ELSE IF etf.scraper_type = st_invesco
    THEN scrape_invesco(w)                                             \* line 406
    ELSE Pair(None, NoError)

\* line 414 with the threshold of the other fund families for every fund
threshold_other_only(etf) == MIN_OTHER_ROWS

\* line 414
threshold(etf) ==
    IF str_in(<<"i","n","v","e","s","c","o">>, etf.scraper_type)
    THEN MIN_INVESCO_ROWS ELSE MIN_OTHER_ROWS

Failure(ticker, rows, reason) == [ticker |-> ticker, rows |-> rows, reason |-> reason]

\* x or y, for error codes
or_else(e, default) == IF e # NoError THEN e ELSE default

\* line 411 without 'and not clean_df.empty'
should_save_any(c) == c.kind = "df"

\* line 411
should_save(c) == c.kind = "df" /\ Len(c.rows) > 0

\* lines 413-422: the quality gate's entry, if any
quality_gate(fs, etf, c, error) ==
    IF Len(c.rows) < threshold(etf)
    THEN Append(fs, Failure(etf.ticker, Len(c.rows), or_else(error, INSUFFICIENT_ROWS)))
    ELSE fs

\* pd.concat(master_list, ignore_index=True)
RECURSIVE concat_rows(_)
concat_rows(tables) ==
    IF tables = <<>> THEN <<>> ELSE tables[1].rows \o concat_rows(Tail(tables))

\* line 456 as an append to the day's file
archive_appended(old, full) == Returned(old.rows \o full.rows)

\* line 456: to_csv replaces the day's file
archive_written(old, full) == full

----------------------------------------------------------------------------
(* main: configurations and worlds.  config.json is readable and every     *)
(* descriptor has a ticker of its own.                                     *)

MaxRuns == 2
MaxDay == 2

u_inv   == <<"i","n","v",".","x">>
u_ft    == <<"f","t",".","x">>
u_pacer == <<"p","a","c","e","r",".","x">>
u_alpha == <<"a","l","p","h","a",".","x">>

ConfigInvesco == << Etf("QQQ", TRUE, st_invesco, u_inv), Etf("FTXL", TRUE, st_first_trust, u_ft) >>
ConfigPacer   == << Etf("OLD", FALSE, st_pacer_csv, u_pacer), Etf("COWZ", TRUE, st_pacer_csv, u_pacer),
                    Etf("QVAL", TRUE, st_alpha, u_alpha) >>
ConfigOdd     == << Etf("BAD", TRUE, st_missing, u_ft), Etf("ZZZ", TRUE, st_other, u_ft),
                    Etf("FTXL", TRUE, st_first_trust, u_ft) >>

Configs == { ConfigInvesco, ConfigPacer, ConfigOdd }

Page(page, tables, disk_ok) == World(page, tables, NoExport, disk_ok)
Down == Page("error", <<>>, TRUE)

WorldsInvesco ==
    { World("error", <<>>, Export("file", ExportFile(MIN_INVESCO_ROWS + 1)), TRUE),
      World("ok", << PerfTable(8), VisibleTable(10) >>, Export("no_button", None), TRUE),
      World("error", <<>>, Export("timeout", None), TRUE) }

WorldsFirstTrust ==
    { Down,
      Page("ok", << TblPerf, Table("ft", HdrPlain, Holdings(6)) >>, TRUE),
      Page("ok", << TblPromote >>, TRUE),
      Page("ok", << Table("ft", HdrPlain, <<RowCash, RowTLT>>) >>, TRUE) }

WorldsPacer ==
    { Page("404", <<>>, TRUE),
      Page("ok", << Table("csv", HdrStockTicker, <<RowCash>> \o Holdings(6)) >>, TRUE),
      Page("ok", << Table("csv", HdrStockTicker, Holdings(3)) >>, FALSE),
      Page("ok", << Table("csv", HdrNoName, Holdings(6)) >>, TRUE) }

WorldsAlpha ==
    { Down,
      Page("ok", << VisibleTable(3) >>, TRUE),
      Page("ok", << VisibleTable(3), VisibleTable(26) >>, TRUE) }

WorldsFor(etf) ==
    IF ~etf.enabled THEN { Down }
    ELSE IF etf.scraper_type = st_invesco THEN WorldsInvesco
    ELSE IF etf.scraper_type = st_first_trust THEN WorldsFirstTrust
    ELSE IF etf.scraper_type = st_pacer_csv THEN WorldsPacer
    ELSE IF etf.scraper_type = st_alpha THEN WorldsAlpha
    ELSE { Down }

AllWorlds == WorldsInvesco \cup WorldsFirstTrust \cup WorldsPacer \cup WorldsAlpha

Tickers(cfg) == { cfg[j].ticker : j \in 1..Len(cfg) }

\* the worlds a configuration's funds can be in, per configuration
Sites ==
    [cfg \in Configs |->
        { s \in [Tickers(cfg) -> AllWorlds] :
            \A j \in 1..Len(cfg) : s[cfg[j].ticker] \in WorldsFor(cfg[j]) }]

----------------------------------------------------------------------------
(* main                                                                    *)

MainInit ==
    /\ etfs \in Configs
    /\ site \in Sites[etfs]
    /\ pc = "idle" /\ TODAY = 1 /\ i = 0 /\ runs = 0
    /\ master_list = <<>> /\ failures = <<>>
    /\ latest = [tk \in Tickers(etfs) |-> ReturnedNone]
    /\ master_latest = ReturnedNone
    /\ archive = [d \in 1..MaxDay |-> ReturnedNone]
    /\ failures_csv = <<>>
    /\ CleanIdle /\ FTIdle /\ InvIdle

mainOther == <<cleanVars, ftVars, invVars>>

\* the process starts (line 24 fixes TODAY) and main runs to the loop
\* (lines 312-335), the sources and the disk being as s for this run; the
\* date does not go back between runs
StartRun(s) ==
    /\ pc \in {"idle", "done"} /\ runs < MaxRuns
    /\ site' = s
    /\ TODAY' \in {d \in {TODAY, TODAY + 1} : d <= MaxDay}
    /\ runs' = runs + 1
    /\ master_list' = <<>> /\ failures' = <<>> /\ i' = 1
    /\ pc' = "loop"
    /\ UNCHANGED <<etfs, latest, master_latest, archive, failures_csv, mainOther>>

\* a run; the sources may have changed since the last one
MainStart == \E s \in Sites[etfs] : StartRun(s)

\* a run against sources that have not changed
MainRestart == StartRun(site)

\* lines 338-339
MainSkip ==
    /\ pc = "loop" /\ i <= Len(etfs) /\ ~etfs[i].enabled
    /\ i' = i + 1
    /\ UNCHANGED <<pc, TODAY, etfs, master_list, failures, site, latest, master_latest,
                   archive, failures_csv, runs, mainOther>>

\* what lines 344-409 compute for fund etf in world w
fund_result(etf, w) ==
    LET f == fetch(etf, w)
    IN  [error |-> f.error, clean |-> clean_dataframe(f.df, etf.ticker)]

\* lines 341-442: one enabled fund, whatever happens to it
MainFund ==
    /\ pc = "loop" /\ i <= Len(etfs) /\ etfs[i].enabled
    /\ \E r \in { fund_result(etfs[i], site[etfs[i].ticker]) } :
       LET etf    == etfs[i]
           c      == r.clean
           caught == Failure(etf.ticker, 0, UNKNOWN)                   \* lines 436-442
       IN  IF etf.scraper_type = st_missing \/ c.kind = "KeyError"
           THEN /\ failures' = Append(failures, caught)
                /\ UNCHANGED <<latest, master_list>>
           ELSE IF should_save(c)
           THEN IF site[etf.ticker].disk_ok
                THEN /\ failures' = quality_gate(failures, etf, c, r.error)
                     /\ latest' = [latest EXCEPT ![etf.ticker] = c]    \* line 425
                     /\ master_list' = Append(master_list, c)          \* line 426
                ELSE /\ failures' = Append(quality_gate(failures, etf, c, r.error), caught)
                     /\ UNCHANGED <<latest, master_list>>
           ELSE /\ failures' = Append(failures,                        \* lines 430-434
                                  Failure(etf.ticker, 0, or_else(r.error, PARSE_ERROR)))
                /\ UNCHANGED <<latest, master_list>>
    /\ i' = i + 1
    /\ UNCHANGED <<pc, TODAY, etfs, site, master_latest, archive, failures_csv, runs,
                   mainOther>>

\* lines 444-459
MainSave ==
    /\ pc = "loop" /\ i > Len(etfs)
    /\ IF master_list # <<>>
       THEN \E full_df \in { Returned(concat_rows(master_list)) } :
                /\ archive' = [archive EXCEPT ![TODAY] = archive_written(@, full_df)]
                /\ master_latest' = full_df
       ELSE UNCHANGED <<archive, master_latest>>
    /\ pc' = "report"
    /\ UNCHANGED <<TODAY, etfs, i, master_list, failures, site, latest, failures_csv, runs,
                   mainOther>>

\* lines 461-469
MainReport ==
    /\ pc = "report"
    /\ failures_csv' = IF failures # <<>> THEN failures ELSE failures_csv
    /\ pc' = "done"
    /\ UNCHANGED <<TODAY, etfs, i, master_list, failures, site, latest, master_latest,
                   archive, runs, mainOther>>

MainNext == MainStart \/ MainSkip \/ MainFund \/ MainSave \/ MainReport

Spec == MainInit /\ [][MainNext]_vars

\* runs of main against sources that do not change
RerunNext == MainRestart \/ MainSkip \/ MainFund \/ MainSave \/ MainReport

SpecRerun == MainInit /\ [][RerunNext]_vars

----------------------------------------------------------------------------
(* Properties of main.                                                     *)

LoopEnded == (pc = "loop" /\ i > Len(etfs)) \/ pc \in {"report", "done"}

\* the descriptors the loop has gone past
Passed == { j \in 1..Len(etfs) : LoopEnded \/ (pc = "loop" /\ j < i) }

\* the tables of this run's master_list that belong to fund tk
SavedTables(tk) ==
    { k \in 1..Len(master_list) :
        master_list[k].rows # <<>> /\ master_list[k].rows[1].ETF_Ticker = tk }

Saved(tk) == SavedTables(tk) # {}

FailureCodes == { WAF_HTML, EXPORT_NOT_FOUND, DOWNLOAD_TIMEOUT, PARSE_ERROR,
                  INSUFFICIENT_ROWS, NETWORK_ERROR, UNKNOWN }

\* failures has an entry for fund tk with n rows and a reason
Reported(tk, n) ==
    \E k \in 1..Len(failures) :
        failures[k].ticker = tk /\ failures[k].rows = n /\ failures[k].reason \in FailureCodes

\* the threshold the quality gate is said to apply
StatedThreshold(etf) ==
    IF str_in(<<"i","n","v","e","s","c","o">>, etf.scraper_type) THEN 30 ELSE 5

\* C6: a failure of one fund never aborts the run: every enabled fund the
\* loop has gone past was processed (it has a saved table or a failures
\* entry), the loop goes on to the end of the list, a fund without a saved
\* table has a failures entry with its ticker, 0 rows and a reason, and a
\* fund saved with fewer rows than its threshold (30 for Invesco scraper
\* types, 5 otherwise) has an entry with its ticker, that row count and a
\* reason.
C6_FailuresAreLocal ==
    /\ pc \in {"report", "done"} => i = Len(etfs) + 1
    /\ \A j \in Passed :
         etfs[j].enabled =>
            LET tk == etfs[j].ticker
            IN  /\ ~Saved(tk) => Reported(tk, 0)
                /\ \A k \in SavedTables(tk) :
                      Len(master_list[k].rows) < StatedThreshold(etfs[j])
                          => Reported(tk, Len(master_list[k].rows))

\* the run is over; an earlier fund failed and a later one was saved, below
\* its threshold and reported with its row count
C6_Witness ==
    /\ pc = "done"
    /\ \E j, k \in 1..Len(etfs) :
         /\ j < k /\ etfs[j].enabled /\ etfs[k].enabled
         /\ ~Saved(etfs[j].ticker) /\ Reported(etfs[j].ticker, 0)
         /\ \E m \in SavedTables(etfs[k].ticker) :
               /\ Len(master_list[m].rows) < StatedThreshold(etfs[k])
               /\ Reported(etfs[k].ticker, Len(master_list[m].rows))

\* the rows of fund tk in a combined table
RowsOfFund(rows, tk) == SelectSeq(rows, LAMBDA r : r.ETF_Ticker = tk)

EnabledTickers == { etfs[j].ticker : j \in { n \in 1..Len(etfs) : etfs[n].enabled } }

\* C7 as stated: after any run, for every enabled fund the stored latest
\* record and the fund's rows in master_latest are the output of that run
\* for the fund, never a record of an earlier run.
C7_LatestIsThisRun ==
    pc = "done" =>
        \A tk \in EnabledTickers :
            /\ latest[tk].kind = "df" =>
                  \E k \in SavedTables(tk) : master_list[k] = latest[tk]
            /\ RowsOfFund(master_latest.rows, tk)
                  = RowsOfFund(concat_rows(master_list), tk)

\* C7 amended: the latest record of a fund is replaced exactly by a run in
\* which the fund yields a non-empty cleaned table that is written, and is
\* then that table (rows of this fund, dated this run); any other run leaves
\* the record as it was.  master_latest is replaced exactly by a run that
\* saved some fund, and is then the rows of the funds saved in that run.
C7_LatestOverwrittenOnSave ==
    /\ [](\A tk \in DOMAIN latest :
            /\ Saved(tk) => \E k \in SavedTables(tk) : master_list[k] = latest[tk]
            /\ latest[tk].kind = "df" =>
                  /\ latest[tk].rows # <<>>
                  /\ \A n \in 1..Len(latest[tk].rows) :
                        /\ latest[tk].rows[n].ETF_Ticker = tk
                        /\ latest[tk].rows[n].Date_Scraped <= TODAY
                        /\ Saved(tk) => latest[tk].rows[n].Date_Scraped = TODAY)
    /\ [](pc \in {"report", "done"} /\ master_list # <<>>
            => master_latest = Returned(concat_rows(master_list)))
    /\ [][ /\ latest' # latest =>
                /\ pc = "loop" /\ i <= Len(etfs)
                /\ master_list' = Append(master_list, latest'[etfs[i].ticker])
                /\ \A tk \in DOMAIN latest : tk # etfs[i].ticker => latest'[tk] = latest[tk]
           /\ master_list' # master_list /\ master_list' # <<>>
                => latest'[etfs[i].ticker] = master_list'[Len(master_list')]
           /\ master_latest' # master_latest => master_list # <<>> ]_vars

\* a second run, a day later: one fund failed and keeps the record of the
\* first run, another was saved again
C7_Witness ==
    /\ pc = "done" /\ runs = 2 /\ TODAY = 2
    /\ \E tj, tk \in EnabledTickers :
         /\ ~Saved(tj) /\ latest[tj].kind = "df" /\ latest[tj].rows[1].Date_Scraped = 1
         /\ Saved(tk) /\ latest[tk].rows[1].Date_Scraped = 2

\* the number of rows in the history, over all its days
RECURSIVE history_rows(_, _)
history_rows(a, d) == IF d = 0 THEN 0 ELSE Len(a[d].rows) + history_rows(a, d - 1)

HistoryRows == history_rows(archive, MaxDay)

\* no two rows of the history have the same fund, constituent and date
OnePerKey ==
    \A d1, d2 \in 1..MaxDay :
        \A n1 \in 1..Len(archive[d1].rows), n2 \in 1..Len(archive[d2].rows) :
            (/\ archive[d1].rows[n1].ETF_Ticker = archive[d2].rows[n2].ETF_Ticker
             /\ archive[d1].rows[n1].ticker = archive[d2].rows[n2].ticker
             /\ archive[d1].rows[n1].Date_Scraped = archive[d2].rows[n2].Date_Scraped)
                => (d1 = d2 /\ n1 = n2)

\* the step that ends a run after the first, the sources being unchanged
SecondSave == pc = "loop" /\ pc' = "report" /\ runs >= 2

====
